---- MODULE Spec2Model ----
(***************************************************************************)
(* A model of the tcp-stack crate: the sequence-space arithmetic of        *)
(* tcp/vars.rs, the connection of tcp/connection.rs (accept, connect,      *)
(* close), the header builder of tcp/packet.rs, the frame reader and the   *)
(* header writer of reader_writer.rs, the data layer of data_link/mod.rs   *)
(* and the receive loop of main.rs.                                        *)
(*                                                                         *)
(* Sequence numbers are u32 and windows u16 in the source.  The model      *)
(* keeps both widths but scales them down: a sequence number has SeqBits   *)
(* bits and a window WndBits bits (WndBits < SeqBits, as 16 < 32), so      *)
(* U32Max plays the part of 0xFFFF_FFFF.                                   *)
(*                                                                         *)
(* Rust's `+` and `-` on u32 panic on overflow when the crate is built     *)
(* with overflow checks (the dev profile) and wrap when it is built        *)
(* without (the release profile).  The build is the variable               *)
(* overflow_checks, chosen once in Init.                                   *)
(*                                                                         *)
(* main.rs computes the Quad of an inbound frame and leaves the dispatch   *)
(* as a todo, and TcpConnection has no handler for the segments that       *)
(* follow the SYN.  Both are modelled after the design document: its       *)
(* demultiplexer (4.4) and its transition table (4.3), on top of the       *)
(* crate's accept and sequence-space functions.                            *)
(*                                                                         *)
(* Spec is the receive loop over inbound frames; SeqSpec applies the       *)
(* functions of the crate one call at a time: those of tcp/vars.rs to      *)
(* every space and argument, write_header to writers over buffers of every *)
(* length, tcp_ip_header and data_offset to readers over frames, connect   *)
(* and close to connections.                                               *)
(***************************************************************************)
EXTENDS Integers, Sequences, FiniteSets, TLC

\* ---------------------------------------------------------------- bounds
SeqBits == 3
WndBits == 2
MaxLen == 3

U32Mod == 2 ^ SeqBits
U32Max == U32Mod - 1
U32 == 0 .. U32Max
U16Max == (2 ^ WndBits) - 1
U16 == 0 .. U16Max
Lens == 0 .. MaxLen

VARIABLES
    overflow_checks,  \* TRUE: arithmetic overflow panics; FALSE: it wraps
    space,            \* SeqSpec: the space, writer, reader or connection under test
    call,             \* SeqSpec: the last call made on it and its result
    status,           \* Spec: the connection table, Quad -> TcpConnection
    wire,             \* Spec: the frames the last event handed to iface.send
    ev,               \* Spec: the last inbound event and what it returned
    panicked,         \* Spec: the process has panicked and handles nothing more
    main_ret          \* Spec: "Running", or "Err" once main has returned an Err

\* ------------------------------------------------- u32 arithmetic (rustc)
\* The outcome of an arithmetic step: a value, or a panic.
Val(v) == [panic |-> FALSE, v |-> v]
Panicked == [panic |-> TRUE, v |-> 0]

\* a + b and a - b on u32 as the build computes them
CheckedOrWrap(x) ==
    IF x >= 0 /\ x <= U32Max THEN Val(x)
    ELSE IF overflow_checks THEN Panicked
    ELSE Val(x % U32Mod)

\* ------------------------------------------------------------ tcp/vars.rs
\* #[derive(Default)] of SendSequenceSpace
SendSequenceSpaceDefault ==
    [una |-> 0, nxt |-> 0, wnd |-> 0, up |-> FALSE, wl1 |-> 0, wl2 |-> 0, iss |-> 0]

\* #[derive(Default)] of ReceiveSequenceSpace
ReceiveSequenceSpaceDefault ==
    [nxt |-> 0, wnd |-> 0, up |-> FALSE, irs |-> 0]

\* SendSequenceSpace::from_seq_number: nxt is `iss + 1`
SendFromSeqNumber(iss, wnd) ==
    LET n == CheckedOrWrap(iss + 1) IN
    IF n.panic THEN Panicked
    ELSE Val([una |-> iss, nxt |-> n.v, wnd |-> wnd, up |-> FALSE,
              wl1 |-> 0, wl2 |-> 0, iss |-> iss])

\* SendSequenceSpace::acceptable: `self.una < ack_number && ack_number <= self.nxt`
SendAcceptable(snd, ack_number) ==
    snd.una < ack_number /\ ack_number <= snd.nxt

\* ReceiveSequenceSpace::from_seq_number: nxt is `seq_number + 1`
RecvFromSeqNumber(seq_number, wnd) ==
    LET n == CheckedOrWrap(seq_number + 1) IN
    IF n.panic THEN Panicked
    ELSE Val([nxt |-> n.v, wnd |-> wnd, up |-> FALSE, irs |-> seq_number])

\* beginning_fall_in_wnd with `<=` for the `<` of its upper bound
BeginningInclusiveUpper(rcv, seq_number) ==
    IF ~(rcv.nxt <= seq_number) THEN Val(FALSE)
    ELSE LET hi == CheckedOrWrap(rcv.nxt + rcv.wnd) IN
         IF hi.panic THEN Panicked ELSE Val(seq_number <= hi.v)

\* ReceiveSequenceSpace::beginning_fall_in_wnd:
\* `self.nxt <= seq_number && seq_number < self.nxt + self.wnd as u32`.
\* && evaluates its right operand, and with it the addition, only when the
\* left one is true.
BeginningFallInWnd(rcv, seq_number) ==
    IF ~(rcv.nxt <= seq_number) THEN Val(FALSE)
    ELSE LET hi == CheckedOrWrap(rcv.nxt + rcv.wnd) IN
         IF hi.panic THEN Panicked ELSE Val(seq_number < hi.v)

\* ReceiveSequenceSpace::end_of_fall_in_wnd: `seq_number + seq_len - 1` is
\* (seq_number + seq_len) - 1, two steps that can each overflow; then
\* `self.nxt <= seq && seq < self.nxt + self.wnd as u32`.
EndOfFallInWnd(rcv, seq_number, seq_len) ==
    LET s1 == CheckedOrWrap(seq_number + seq_len) IN
    IF s1.panic THEN Panicked
    ELSE LET s2 == CheckedOrWrap(s1.v - 1) IN
         IF s2.panic THEN Panicked
         ELSE IF ~(rcv.nxt <= s2.v) THEN Val(FALSE)
         ELSE LET hi == CheckedOrWrap(rcv.nxt + rcv.wnd) IN
              IF hi.panic THEN Panicked ELSE Val(s2.v < hi.v)

\* ---------------------------------------------------------------- meta.rs
ETHERNET_MTU == 1500
TUN_SIZE == 4
TCP_HEADER_MAXIMUM_SIZE == 20
IP_HEADER_MAXIMUM_SIZE == 20

\* main.rs: the receive buffer, `1500 + TUN_SIZE`
MUT_SIZE == ETHERNET_MTU + TUN_SIZE

\* ------------------------------------------------------ tcp/connection.rs
DEFAULT_ISS == 0
DEFAULT_WINDOWS_SIZE == 1024
DEFAULT_TIME_TO_LIVE == 64

\* ---------------------------------------------------------- tcp/packet.rs
\* etherparse::TcpHeader::new(source_port, destination_port, sequence_number,
\* window_size): every flag clear, acknowledgment number 0, checksum 0, no
\* options.
TcpHeaderNew(source_port, destination_port, sequence_number, window_size) ==
    [source_port |-> source_port, destination_port |-> destination_port,
     sequence_number |-> sequence_number, acknowledgment_number |-> 0,
     window_size |-> window_size,
     syn |-> FALSE, ack |-> FALSE, fin |-> FALSE, rst |-> FALSE,
     checksum |-> 0, header_len |-> TCP_HEADER_MAXIMUM_SIZE]

\* etherparse::Ipv4Header::new(payload_len, ttl, protocol, source, destination)
Ipv4HeaderNew(payload_len, ttl, source, destination) ==
    [source |-> source, destination |-> destination, ttl |-> ttl,
     payload_len |-> payload_len, header_len |-> IP_HEADER_MAXIMUM_SIZE]

\* with_rcv_tcpip_header with the endpoints in the order received
WithRcvTcpipHeaderUnswapped(seg) ==
    LET tcp == TcpHeaderNew(seg.src.port, seg.dst.port, DEFAULT_ISS,
                            DEFAULT_WINDOWS_SIZE)
        ip == Ipv4HeaderNew(tcp.header_len, DEFAULT_TIME_TO_LIVE,
                            seg.src.ip, seg.dst.ip)
    IN [ip_header |-> ip, tcp_header |-> tcp]

\* TcpIpHeader::with_rcv_tcpip_header: the response header of a received one
WithRcvTcpipHeader(seg) ==
    LET tcp == TcpHeaderNew(seg.dst.port, seg.src.port, DEFAULT_ISS,
                            DEFAULT_WINDOWS_SIZE)
        ip == Ipv4HeaderNew(tcp.header_len, DEFAULT_TIME_TO_LIVE,
                            seg.dst.ip, seg.src.ip)
    IN [ip_header |-> ip, tcp_header |-> tcp]

\* TcpIpHeader::from_tcpip_header
FromTcpipHeader(ip_header, tcp_header) ==
    [ip_header |-> ip_header, tcp_header |-> tcp_header]

\* TcpIpHeader::snd_syn
SndSyn(packet) == [packet EXCEPT !.tcp_header.syn = TRUE]

\* TcpIpHeader::snd_fin
SndFin(packet) == [packet EXCEPT !.tcp_header.fin = TRUE]

\* The two 16-bit words of an IPv4 address, added.
AddrWords(ip) ==
    CASE ip = "10.0.0.1" -> 10 * 256 + 1
      [] ip = "10.0.0.2" -> 10 * 256 + 2
      [] ip = "192.168.1.1" -> (192 * 256 + 168) + (1 * 256 + 1)
      [] OTHER -> 0

\* The word of a TCP header that holds the data offset and the flags.
FlagsWord(tcp) ==
    (tcp.header_len \div 4) * 4096
        + (IF tcp.ack THEN 16 ELSE 0) + (IF tcp.rst THEN 4 ELSE 0)
        + (IF tcp.syn THEN 2 ELSE 0) + (IF tcp.fin THEN 1 ELSE 0)

\* The 16-bit one's complement sum: the carries are added back in.
Fold16(x) == IF x = 0 THEN 0 ELSE ((x - 1) % 65535) + 1

\* etherparse::TcpHeader::calc_checksum_ipv4(ip_header, payload): the
\* complement of the one's complement sum of the pseudo header (addresses,
\* protocol 6, TCP length), of the TCP header with its checksum field taken
\* as zero, and of the payload (payload_sum is the sum of its words).
CalcChecksumIpv4(tcp, ip, payload_len, payload_sum) ==
    65535 - Fold16(AddrWords(ip.source) + AddrWords(ip.destination) + 6
                   + tcp.header_len + payload_len
                   + tcp.source_port + tcp.destination_port
                   + tcp.sequence_number + tcp.acknowledgment_number
                   + FlagsWord(tcp) + tcp.window_size + payload_sum)

\* TcpIpHeader::check_sum: the checksum is returned, not stored.
CheckSum(packet, payload_len, payload_sum) ==
    CalcChecksumIpv4(packet.tcp_header, packet.ip_header, payload_len,
                     payload_sum)

\* TcpIpHeader::update_seq_number
UpdateSeqNumber(packet, snd_space, rcv_space) ==
    [packet EXCEPT !.tcp_header.sequence_number = snd_space.nxt,
                   !.tcp_header.acknowledgment_number = rcv_space.nxt]

\* TcpIpHeader::handshake_resp
HandshakeResp(packet) ==
    [packet EXCEPT !.tcp_header.syn = TRUE, !.tcp_header.ack = TRUE]

\* ------------------------------------------------------- reader_writer.rs
\* The headers read back from bytes no header was written to (all zero).
BlankIp == Ipv4HeaderNew(0, 0, "0.0.0.0", "0.0.0.0")
BlankTcp == TcpHeaderNew(0, 0, 0, 0)

\* RawWriter: the offset of the IPv4 header, the length of the buffer, and
\* the headers its bytes hold.
RawWriterNew(offset, len) ==
    [offset |-> offset, len |-> len, ip |-> BlankIp, tcp |-> BlankTcp]

\* RawWriter::with_default_offset(): a zeroed buffer of one MTU behind the
\* tunnel prefix
RawWriterWithDefaultOffset ==
    RawWriterNew(TUN_SIZE, TUN_SIZE + ETHERNET_MTU)

\* RawWriter::buffer(): the frame handed to the data layer
Buffer(writer) ==
    [len |-> writer.len, ip |-> writer.ip, tcp |-> writer.tcp]

\* RawWriter::minimum_size
MinimumSize(writer, packet) ==
    writer.offset + packet.ip_header.header_len + packet.tcp_header.header_len - 1

\* RawWriter::assert_range: `self.buf.len() < self.minimum_size()`
AssertRange(writer, packet) ==
    writer.len < MinimumSize(writer, packet)

\* RawWriter::write_header: `if !self.assert_range() { return Err(..) }` with
\* SliceTooSmall(self.minimum_size()), then `self.buf[self.offset..]`, which
\* panics when the offset lies behind the buffer's end, then the IPv4 header
\* at the offset and the TCP header behind it, each write failing with an
\* I/O error when the bytes left do not hold it.
WriteHeader(writer, packet) ==
    IF ~AssertRange(writer, packet)
    THEN [err |-> TRUE, kind |-> "SliceTooSmall", panic |-> FALSE,
          required |-> MinimumSize(writer, packet), writer |-> writer]
    ELSE IF writer.len < writer.offset
    THEN [err |-> FALSE, kind |-> "None", panic |-> TRUE, required |-> 0,
          writer |-> writer]
    ELSE IF writer.len - writer.offset < packet.ip_header.header_len
    THEN [err |-> TRUE, kind |-> "IoError", panic |-> FALSE, required |-> 0,
          writer |-> writer]
    ELSE LET w1 == [writer EXCEPT !.ip = packet.ip_header] IN
         IF w1.len - w1.offset - packet.ip_header.header_len
                < packet.tcp_header.header_len
         THEN [err |-> TRUE, kind |-> "IoError", panic |-> FALSE,
               required |-> 0, writer |-> w1]
         ELSE [err |-> FALSE, kind |-> "None", panic |-> FALSE, required |-> 0,
               writer |-> [w1 EXCEPT !.tcp = packet.tcp_header]]

\* Option<usize>
None == [some |-> FALSE, v |-> 0]
Some(v) == [some |-> TRUE, v |-> v]

\* The outcome of a header parse: a panic, an error, or the length of the
\* header's slice.
ParsePanic == [panic |-> TRUE, err |-> FALSE, len |-> 0]
ParseErr == [panic |-> FALSE, err |-> TRUE, len |-> 0]
ParseOk(len) == [panic |-> FALSE, err |-> FALSE, len |-> len]

\* Ipv4HeaderSlice::from_slice(&buf[start..end]) on a frame in a buffer of
\* buflen bytes whose byte at the offset has the nibbles version and ihl: the
\* indexing panics when start > end or end > buflen; the parse fails on less
\* than 20 bytes, on a version other than 4, on ihl < 5 and on less than
\* ihl * 4 bytes; the slice is ihl * 4 bytes long.
Ipv4FromSlice(frame, start, end) ==
    IF start > end \/ end > frame.buflen THEN ParsePanic
    ELSE IF \/ end - start < IP_HEADER_MAXIMUM_SIZE
            \/ frame.version # 4
            \/ frame.ihl < 5
            \/ end - start < frame.ihl * 4
    THEN ParseErr
    ELSE ParseOk(frame.ihl * 4)

\* TcpHeaderSlice::from_slice(&buf[start..end]) on a frame whose TCP data
\* offset is doff: the indexing panics when start > end or end > buflen; the
\* parse fails on less than 20 bytes, on doff < 5 and on less than doff * 4
\* bytes; the slice is doff * 4 bytes long.
TcpFromSlice(frame, start, end) ==
    IF start > end \/ end > frame.buflen THEN ParsePanic
    ELSE IF \/ end - start < TCP_HEADER_MAXIMUM_SIZE
            \/ frame.doff < 5
            \/ end - start < frame.doff * 4
    THEN ParseErr
    ELSE ParseOk(frame.doff * 4)

\* RawReader::from_slice(buf, nread, offset) over a frame
RawReaderFromSlice(frame, nread, offset) ==
    [offset |-> offset, len |-> nread, buflen |-> frame.buflen,
     version |-> frame.version, ihl |-> frame.ihl, doff |-> frame.doff,
     data_offset |-> None]

\* RawReader::is_ipv4_packet: `self.buf[self.offset + 0] >> 4` is 4.  The
\* index is into the buffer, whatever the read length, and panics at and
\* behind the buffer's end.
IsIpv4Packet(reader) ==
    IF reader.offset >= reader.buflen THEN Panicked
    ELSE Val(reader.version = 4)

\* RawReader::is_ipv6_packet: `self.buf[self.offset + 0] >> 4` is 6
IsIpv6Packet(reader) ==
    IF reader.offset >= reader.buflen THEN Panicked
    ELSE Val(reader.version = 6)

\* RawReader::ipv4_header
Ipv4Header(reader) == Ipv4FromSlice(reader, reader.offset, reader.len)

NoViews == [ip_at |-> 0, ip_len |-> 0, tcp_at |-> 0, tcp_len |-> 0]

\* tcp_ip_header without its `self.data_offset = Some(..)`
TcpIpHeaderNoCache(reader) ==
    LET ip == Ipv4Header(reader)
        tcp == TcpFromSlice(reader, reader.offset + ip.len, reader.len)
    IN IF ip.panic \/ ip.err \/ tcp.panic \/ tcp.err
       THEN [panic |-> ip.panic, err |-> ~ip.panic, views |-> NoViews,
             reader |-> reader]
       ELSE [panic |-> FALSE, err |-> FALSE, reader |-> reader,
             views |-> [ip_at |-> reader.offset, ip_len |-> ip.len,
                        tcp_at |-> reader.offset + ip.len,
                        tcp_len |-> tcp.len]]

\* RawReader::tcp_ip_header: the IPv4 header at the offset, the TCP header
\* behind it, both up to the read length; the payload offset is cached when
\* none is.  The views are the places and lengths of the two header slices.
TcpIpHeader(reader) ==
    LET ip == Ipv4Header(reader) IN
    IF ip.panic
    THEN [panic |-> TRUE, err |-> FALSE, views |-> NoViews, reader |-> reader]
    ELSE IF ip.err
    THEN [panic |-> FALSE, err |-> TRUE, views |-> NoViews, reader |-> reader]
    ELSE LET tcp == TcpFromSlice(reader, reader.offset + ip.len, reader.len) IN
         IF tcp.panic \/ tcp.err
         THEN [panic |-> tcp.panic, err |-> tcp.err, views |-> NoViews,
               reader |-> reader]
         ELSE [panic |-> FALSE, err |-> FALSE,
               views |-> [ip_at |-> reader.offset, ip_len |-> ip.len,
                          tcp_at |-> reader.offset + ip.len,
                          tcp_len |-> tcp.len],
               reader |->
                   IF ~reader.data_offset.some
                   THEN [reader EXCEPT !.data_offset =
                             Some(reader.offset + ip.len + tcp.len)]
                   ELSE reader]

\* RawReader::tcp_header
TcpHeader(reader) == TcpIpHeader(reader)

\* RawReader::data_offset: `if self.data_offset.is_none() { self.tcp_header() }`
\* with the Result left aside, then `self.data_offset.unwrap()`, which panics
\* on None.
DataOffset(reader) ==
    LET r == IF ~reader.data_offset.some THEN TcpHeader(reader)
             ELSE [panic |-> FALSE, err |-> FALSE, views |-> NoViews,
                   reader |-> reader]
    IN IF r.panic \/ ~r.reader.data_offset.some
       THEN [panic |-> TRUE, v |-> 0, reader |-> r.reader]
       ELSE [panic |-> FALSE, v |-> r.reader.data_offset.v, reader |-> r.reader]

\* ------------------------------------------------------ tcp/connection.rs
\* TcpConnection::from_recv_sequence
FromRecvSequence(seq_number, wnd) ==
    LET r == RecvFromSeqNumber(seq_number, wnd) IN
    IF r.panic THEN Panicked
    ELSE Val([state |-> "Closed", timeout |-> "None", keep_alive |-> "None",
              send_seq |-> SendSequenceSpaceDefault, recv_seq |-> r.v])

\* TcpConnection::set_state
SetState(conn, state) == [conn EXCEPT !.state = state]

\* fn handshake: the flags, the sequence numbers, then write_header(..)?
Handshake(conn, handshake_packet, writer) ==
    LET p1 == HandshakeResp(handshake_packet)
        p2 == UpdateSeqNumber(p1, conn.send_seq, conn.recv_seq)
        w == WriteHeader(writer, p2)
    IN [err |-> w.err, packet |-> p2, writer |-> w.writer]

NoConn == [state |-> "None"]

\* ------------------------------------------------------- data_link/mod.rs
\* DataLayer::send on the tunnel interface: the length sent, or an I/O error
\* when the interface does not take the frame.
Send(iface, data) ==
    IF iface.up THEN [err |-> FALSE, n |-> data.len] ELSE [err |-> TRUE, n |-> 0]

Ifaces == {[up |-> TRUE], [up |-> FALSE]}

\* ------------------------------------------------------ tcp/connection.rs
\* What accept returns when it sends nothing.
AcceptNothing(ret) ==
    [ret |-> ret, conn |-> NoConn, frames |-> <<>>, hs_err |-> FALSE,
     send_err |-> FALSE, packet |-> [ip_header |-> BlankIp, tcp_header |-> BlankTcp]]

\* accept without its `if !tcp.syn() { return Ok(None); }`
AcceptWithoutSynCheck(iface, seg) ==
    LET c0 == FromRecvSequence(seg.seq, seg.wnd) IN
    IF c0.panic
    THEN AcceptNothing("Panic")
    ELSE [AcceptNothing("Some") EXCEPT
              !.conn = SetState(c0.v, "SynReceived"),
              !.frames = <<Buffer(RawWriterWithDefaultOffset)>>]

\* TcpConnection::accept.  ret is "None" for Ok(None), "Some" for
\* Ok(Some(conn)), "Panic" when the call panics; frames are those handed to
\* iface.send.  The Result of handshake(..) (hs_err) and that of
\* iface.send(..) (send_err) are dropped.
Accept(iface, seg) ==
    IF ~seg.syn
    THEN AcceptNothing("None")
    ELSE LET c0 == FromRecvSequence(seg.seq, seg.wnd) IN
         IF c0.panic
         THEN AcceptNothing("Panic")
         ELSE LET c1 == SetState(c0.v, "Listen")
                  h == Handshake(c1, WithRcvTcpipHeader(seg),
                                 RawWriterWithDefaultOffset)
                  sent == Send(iface, Buffer(h.writer))
              IN [ret |-> "Some",
                  conn |-> SetState(c1, "SynReceived"),
                  frames |-> <<Buffer(h.writer)>>,
                  hs_err |-> h.err,
                  send_err |-> sent.err,
                  packet |-> h.packet]

\* TcpConnection::create
Create ==
    [state |-> "Closed", timeout |-> "None", keep_alive |-> "None",
     send_seq |-> SendSequenceSpaceDefault,
     recv_seq |-> ReceiveSequenceSpaceDefault]

\* What connect returns when it returns no connection.
ConnectNothing(ret) ==
    [ret |-> ret, conn |-> NoConn, frames |-> <<>>, send_err |-> FALSE]

\* TcpConnection::connect(iface, ip, port) from 192.168.1.1:54466, with
\* RawWriter::new(0) over a buffer of buflen bytes.  An IPv6 address ends in
\* unimplemented!(); `raw.write_header(&packet)?` returns its error; the
\* Result of iface.send(..) is dropped.
Connect(iface, ip, port, buflen) ==
    IF ip.v6 THEN ConnectNothing("Panic")
    ELSE LET conn == Create
             tcp_header == TcpHeaderNew(54466, port, DEFAULT_ISS,
                                        DEFAULT_WINDOWS_SIZE)
             ip_header == Ipv4HeaderNew(tcp_header.header_len,
                                        DEFAULT_TIME_TO_LIVE,
                                        "192.168.1.1", ip.addr)
             packet == SndSyn(FromTcpipHeader(ip_header, tcp_header))
             w == WriteHeader(RawWriterNew(0, buflen), packet)
         IN IF w.panic THEN ConnectNothing("Panic")
            ELSE IF w.err THEN ConnectNothing("Err")
            ELSE [ret |-> "Ok", conn |-> SetState(conn, "SynSent"),
                  frames |-> <<Buffer(w.writer)>>,
                  send_err |-> Send(iface, Buffer(w.writer)).err]

\* TcpConnection::close: `self.state = TcpState::Closed`.  It has no data
\* layer to send on.
Close(conn) == [conn EXCEPT !.state = "Closed"]

\* -------------------------------------------------------------- tcp/mod.rs
TIME_TO_LIVE == 64

\* `let mut resp_data = [0_u8; 1500];`
RESP_DATA_SIZE == 1500

\* What TcpState::packet returns when it sends nothing: Ok(0).
PacketNothing(state) ==
    [ret |-> "Ok", state |-> state, frames |-> <<>>, written |-> 0,
     resp |-> [ip_header |-> BlankIp, tcp_header |-> BlankTcp]]

\* TcpState::packet(iface, ip, tcp, data).  Closed returns Ok(0); Listen
\* returns Ok(0) for a segment without SYN and answers a SYN: the response
\* header with SYN and ACK, sequence number 1 and window 0, written with the
\* IPv4 header into resp_data through `buf`, a slice that each write moves
\* on, so that `buf.len()`, taken for end_index, is what is left of the
\* buffer; then `iface.send(&resp_data[..end_index])?`.  written is the
\* number of bytes the two writes have filled.
Packet(state, iface, seg) ==
    IF state = "Closed" THEN PacketNothing(state)
    ELSE IF ~seg.syn THEN PacketNothing(state)
    ELSE LET h0 == TcpHeaderNew(seg.dst.port, seg.src.port, 1, 0)
             resp_header == [h0 EXCEPT !.syn = TRUE, !.ack = TRUE]
             resp_ip == Ipv4HeaderNew(resp_header.header_len, TIME_TO_LIVE,
                                      seg.dst.ip, seg.src.ip)
             left1 == RESP_DATA_SIZE - resp_ip.header_len
             end_index == left1 - resp_header.header_len
             frame == [len |-> end_index, ip |-> resp_ip, tcp |-> resp_header]
             sent == Send(iface, frame)
         IN [ret |-> IF sent.err THEN "Err" ELSE "Ok",
             state |-> state,
             frames |-> <<frame>>,
             written |-> resp_ip.header_len + resp_header.header_len,
             resp |-> [ip_header |-> resp_ip, tcp_header |-> resp_header]]

\* ------------------------------------------------ the segment handler
\* segment_acceptable(seq, len): for len == 0 the start of the segment, for
\* len > 0 its start or its end, each tested by the helper of tcp/vars.rs.
SegmentAcceptable(rcv, seq, len) ==
    LET b == BeginningFallInWnd(rcv, seq) IN
    IF len = 0 \/ b.panic \/ b.v THEN b ELSE EndOfFallInWnd(rcv, seq, len)

\* The ACK that answers a rejected or a FIN segment: the response header with
\* ACK set and the connection's sequence numbers, written as handshake writes.
AckFrame(conn, seg) ==
    LET p0 == WithRcvTcpipHeader(seg)
        p1 == [p0 EXCEPT !.tcp_header.ack = TRUE]
        p2 == UpdateSeqNumber(p1, conn.send_seq, conn.recv_seq)
    IN Buffer(WriteHeader(RawWriterWithDefaultOffset, p2).writer)

\* The inbound-segment handler of a connection: a rejected segment is
\* discarded and, without RST, answered by an ACK; an accepted RST closes and
\* removes; an acceptable ACK in SynReceived establishes; a FIN in Established
\* is acknowledged.
OnSegment(conn, seg) ==
    LET a == SegmentAcceptable(conn.recv_seq, seg.seq, seg.len) IN
    IF a.panic
    THEN [panic |-> TRUE, conn |-> conn, frames |-> <<>>, remove |-> FALSE]
    ELSE IF ~a.v
    THEN [panic |-> FALSE, conn |-> conn, remove |-> FALSE,
          frames |-> IF seg.rst THEN <<>> ELSE <<AckFrame(conn, seg)>>]
    ELSE IF seg.rst
    THEN [panic |-> FALSE, conn |-> SetState(conn, "Closed"), remove |-> TRUE,
          frames |-> <<>>]
    ELSE IF conn.state = "SynReceived" /\ seg.ack
            /\ SendAcceptable(conn.send_seq, seg.ackno)
    THEN [panic |-> FALSE, remove |-> FALSE, frames |-> <<>>,
          conn |-> [conn EXCEPT !.state = "Established",
                                !.send_seq.una = seg.ackno]]
    ELSE IF conn.state = "Established" /\ seg.fin
    THEN LET c1 == [conn EXCEPT !.state = "CloseWait",
                        !.recv_seq.nxt = (seg.seq + seg.len) % U32Mod]
         IN [panic |-> FALSE, remove |-> FALSE, conn |-> c1,
             frames |-> <<AckFrame(c1, seg)>>]
    ELSE [panic |-> FALSE, conn |-> conn, remove |-> FALSE, frames |-> <<>>]

\* ---------------------------------------------------------------- main.rs
\* Addr::new
AddrNew(ip, port) == [ip |-> ip, port |-> port]

\* Quad::new(src, dest), as main builds the key of an inbound frame:
\* Quad::new(Addr::new(source ..), Addr::new(destination ..))
QuadNew(src, dest) == [src |-> src, dest |-> dest]

\* The key with the destination in the first place and the source in the
\* second
QuadOfDestFirst(seg) == QuadNew(seg.dst, seg.src)

\* main.rs: Quad::new(Addr::new(ip.source_addr(), tcp.source_port()),
\*                    Addr::new(ip.destination_addr(), tcp.destination_port()))
QuadOf(seg) == QuadNew(seg.src, seg.dst)

\* Quad::from_tcpip_header of reader_writer.rs: the same key
QuadFromTcpipHeader(seg) == QuadNew(seg.src, seg.dst)

\* ------------------------------------------------------ Spec: the inputs
Endpoints == {AddrNew("10.0.0.1", 80), AddrNew("10.0.0.2", 5000)}

Quads ==
    {QuadNew(p[1], p[2]) : p \in {x \in Endpoints \X Endpoints : x[1] # x[2]}}

\* The inbound segments.  Sequence numbers: the smallest two and the largest;
\* windows: closed and open; lengths: none, one byte, two bytes.
SegSeqs == {0, 1, U32Max}
SegWnds == {0, U16Max}
SegLens == {0, 1, 2}

\* The acknowledgment numbers of the inbound ACKs: DEFAULT_ISS and the one
\* after it.
AckNos == {DEFAULT_ISS, DEFAULT_ISS + 1}

F(syn, ack, fin, rst) == [syn |-> syn, ack |-> ack, fin |-> fin, rst |-> rst]

Segment(src, dst, f, seq, ackno, wnd, len) ==
    [src |-> src, dst |-> dst, syn |-> f.syn, ack |-> f.ack, fin |-> f.fin,
     rst |-> f.rst, seq |-> seq, ackno |-> ackno, wnd |-> wnd, len |-> len]

\* SYN segments, ACK segments with and without data, RST segments, FIN+ACK
\* segments and SYN segments with RST set, from src to dst.
SegmentsOf(src, dst) ==
    {Segment(src, dst, F(TRUE, FALSE, FALSE, FALSE), s, 0, w, 0) :
        s \in SegSeqs, w \in SegWnds}
    \cup {Segment(src, dst, F(FALSE, TRUE, FALSE, FALSE), s[1], s[2], U16Max, s[3]) :
        s \in SegSeqs \X AckNos \X SegLens}
    \cup {Segment(src, dst, F(FALSE, FALSE, FALSE, TRUE), s, 0, 0, 0) :
        s \in SegSeqs}
    \cup {Segment(src, dst, F(FALSE, TRUE, TRUE, FALSE), s, DEFAULT_ISS + 1, U16Max, 1) :
        s \in SegSeqs}
    \cup {Segment(src, dst, F(TRUE, FALSE, FALSE, TRUE), s, 0, U16Max, 0) :
        s \in SegSeqs}

\* The frame read for a segment: the tunnel prefix with the IPv4 ether type,
\* a 5-word IPv4 header, a 5-word TCP header and the payload.
FrameOf(seg) ==
    [proto |-> "IPv4", version |-> 4, ihl |-> 5, doff |-> 5,
     buflen |-> MUT_SIZE,
     n |-> TUN_SIZE + IP_HEADER_MAXIMUM_SIZE + TCP_HEADER_MAXIMUM_SIZE + seg.len]

\* The frames read beside those: IPv4 frames cut short within the IPv4
\* header, behind it, or not at all, with the version and the two header
\* lengths right or wrong, and an IPv6 frame.
InboundFrames ==
    {[proto |-> "IPv4", version |-> v, ihl |-> i, doff |-> d, n |-> n,
      buflen |-> MUT_SIZE] :
        v \in {4, 6}, i \in {4, 5}, d \in {4, 5},
        n \in {TUN_SIZE + 10, TUN_SIZE + IP_HEADER_MAXIMUM_SIZE,
               TUN_SIZE + IP_HEADER_MAXIMUM_SIZE + TCP_HEADER_MAXIMUM_SIZE}}
    \cup {[proto |-> "IPv6", version |-> 6, ihl |-> 0, doff |-> 5,
           buflen |-> MUT_SIZE,
           n |-> TUN_SIZE + 2 * IP_HEADER_MAXIMUM_SIZE + TCP_HEADER_MAXIMUM_SIZE]}

NoFrame ==
    [proto |-> "None", version |-> 0, ihl |-> 0, doff |-> 0, n |-> 0,
     buflen |-> MUT_SIZE]

NoSegment ==
    Segment(AddrNew("0.0.0.0", 0), AddrNew("0.0.0.0", 0),
            F(FALSE, FALSE, FALSE, FALSE), 0, 0, 0, 0)

NoEvent ==
    [op |-> "none", seg |-> NoSegment, quad |-> QuadOf(NoSegment),
     pre |-> NoConn, ret |-> "None", frame |-> NoFrame]

\* No sequence space built yet.
NoSpace == [kind |-> "none"]

\* No call made yet on the sequence space under test.
NoCall == [op |-> "none", a |-> 0, b |-> 0, res |-> Val(FALSE)]

\* ----------------------------------------------------- Spec: the actions
Init ==
    /\ overflow_checks \in BOOLEAN
    /\ status = [q \in Quads |-> NoConn]
    /\ wire = <<>>
    /\ ev = NoEvent
    /\ panicked = FALSE
    /\ main_ret = "Running"
    /\ space = NoSpace
    /\ call = NoCall

\* status.entry(quad) with every key taken for vacant
EntryVacant(table, quad) == "Vacant"

\* status.entry(quad): the entry of the key, occupied or vacant
Entry(table, quad) ==
    IF table[quad] = NoConn THEN "Vacant" ELSE "Occupied"

\* A frame for a quad without a connection: the handshake responder, whose
\* connection, if it returns one, enters the table.
DispatchAccept(seg) ==
    \E iface \in Ifaces :
       LET q == QuadOf(seg)
           r == Accept(iface, seg)
       IN /\ Entry(status, q) = "Vacant"
          /\ ev' = [op |-> "accept", seg |-> seg, quad |-> q,
                    pre |-> status[q], ret |-> r.ret, frame |-> FrameOf(seg),
                    hs_err |-> r.hs_err, send_err |-> r.send_err,
                    packet |-> r.packet]
          /\ panicked' = (r.ret = "Panic")
          /\ wire' = r.frames
          /\ status' = IF r.ret = "Some" THEN [status EXCEPT ![q] = r.conn]
                       ELSE status

\* A frame for a quad with a connection: the connection's handler.
DispatchSegment(seg) ==
    LET q == QuadOf(seg)
        r == OnSegment(status[q], seg)
    IN /\ Entry(status, q) = "Occupied"
       /\ ev' = [op |-> "segment", seg |-> seg, quad |-> q, pre |-> status[q],
                 ret |-> IF r.panic THEN "Panic" ELSE "None",
                 frame |-> FrameOf(seg)]
       /\ panicked' = r.panic
       /\ wire' = r.frames
       /\ status' = IF r.panic THEN status
                    ELSE IF r.remove THEN [status EXCEPT ![q] = NoConn]
                    ELSE [status EXCEPT ![q] = r.conn]

\* main: `proto != EtherType::IPv4`
NotIpv4(frame) == frame.proto # "IPv4"

\* main: Ipv4HeaderSlice::from_slice(&mtu_buf[TUN_SIZE..n])?, then
\* TcpHeaderSlice::from_slice(&mtu_buf[TUN_SIZE + iph_len..])?, which runs to
\* the end of the buffer; len is data_index.
MainParse(frame) ==
    LET ip == Ipv4FromSlice(frame, TUN_SIZE, frame.n) IN
    IF ip.panic \/ ip.err THEN ip
    ELSE LET tcp == TcpFromSlice(frame, TUN_SIZE + ip.len, MUT_SIZE) IN
         IF tcp.panic \/ tcp.err THEN tcp
         ELSE ParseOk(TUN_SIZE + ip.len + tcp.len)

\* One turn of the receive loop on a frame that is not IPv4: `continue`.
RecvNotIpv4 ==
    /\ ~panicked /\ main_ret = "Running"
    /\ \E frame \in InboundFrames :
          /\ NotIpv4(frame)
          /\ ev' = [NoEvent EXCEPT !.op = "continue", !.frame = frame]
    /\ wire' = <<>>
    /\ UNCHANGED <<overflow_checks, space, call, status, panicked, main_ret>>

\* One turn of the receive loop on an IPv4 frame whose headers do not parse:
\* the `?` returns the error from main.
RecvParseError ==
    /\ ~panicked /\ main_ret = "Running"
    /\ \E frame \in InboundFrames :
          LET r == MainParse(frame) IN
          /\ ~NotIpv4(frame)
          /\ r.panic \/ r.err
          /\ ev' = [op |-> "parse_error", seg |-> NoSegment,
                    quad |-> QuadOf(NoSegment), pre |-> NoConn,
                    ret |-> IF r.panic THEN "Panic" ELSE "Err",
                    frame |-> frame, table |-> status]
          /\ panicked' = r.panic
          /\ main_ret' = IF r.err THEN "Err" ELSE main_ret
    /\ wire' = <<>>
    /\ UNCHANGED <<overflow_checks, space, call, status>>

\* One turn of the receive loop on an IPv4 frame that ends before its TCP
\* header does, read into the buffer that still holds the TCP header of the
\* frame before it: the TCP parse runs to the end of the buffer and returns
\* that header, and data_index lies behind n, where `&mtu_buf[data_index..n]`
\* of the dispatch panics.
RecvStale ==
    /\ ~panicked /\ main_ret = "Running"
    /\ ev.op \in {"accept", "segment"}
    /\ \E frame \in InboundFrames :
          LET r == MainParse(frame) IN
          /\ ~NotIpv4(frame) /\ ~r.panic /\ ~r.err
          /\ frame.doff = ev.frame.doff
          /\ frame.n < r.len
          /\ ev' = [op |-> "stale_parse", seg |-> ev.seg,
                    quad |-> QuadOf(ev.seg), pre |-> status[QuadOf(ev.seg)],
                    ret |-> "Panic", frame |-> frame, data_index |-> r.len]
    /\ panicked' = TRUE
    /\ wire' = <<>>
    /\ UNCHANGED <<overflow_checks, space, call, status, main_ret>>

\* One turn of the receive loop on an IPv4 frame whose headers parse.
Recv ==
    /\ ~panicked /\ main_ret = "Running"
    /\ \E q \in Quads : \E seg \in SegmentsOf(q.src, q.dest) :
          LET r == MainParse(FrameOf(seg)) IN
          /\ ~NotIpv4(FrameOf(seg)) /\ ~r.panic /\ ~r.err
          /\ DispatchAccept(seg) \/ DispatchSegment(seg)
    /\ UNCHANGED <<overflow_checks, space, call, main_ret>>

vars == <<overflow_checks, space, call, status, wire, ev, panicked, main_ret>>

Next ==
    \/ RecvNotIpv4
    \/ RecvParseError
    \/ RecvStale
    \/ Recv

Spec == Init /\ [][Next]_vars

\* ------------------------------------------- SeqSpec: the pure functions
\* The send and receive spaces a connection can hold: every field is pub and
\* una, nxt advance independently as data is sent and acknowledged.
SendSpaces ==
    { [kind |-> "snd", una |-> u, nxt |-> n, wnd |-> 0, up |-> FALSE,
       wl1 |-> 0, wl2 |-> 0, iss |-> u] : u \in U32, n \in U32 }

RecvSpaces ==
    { [kind |-> "rcv", nxt |-> n, wnd |-> w, up |-> FALSE, irs |-> 0] :
        n \in U32, w \in U16 }

Tag(k, r) == [kind |-> k] @@ r

\* The buffer lengths a writer is built over: none, the tunnel prefix, one
\* byte less than the IPv4 header needs and just enough for it, one and two
\* bytes less than both headers need, just enough for both, and one MTU.
WriterLens ==
    {0, TUN_SIZE,
     TUN_SIZE + IP_HEADER_MAXIMUM_SIZE - 1, TUN_SIZE + IP_HEADER_MAXIMUM_SIZE,
     IP_HEADER_MAXIMUM_SIZE + TCP_HEADER_MAXIMUM_SIZE - 1,
     IP_HEADER_MAXIMUM_SIZE + TCP_HEADER_MAXIMUM_SIZE,
     TUN_SIZE + IP_HEADER_MAXIMUM_SIZE + TCP_HEADER_MAXIMUM_SIZE - 2,
     TUN_SIZE + IP_HEADER_MAXIMUM_SIZE + TCP_HEADER_MAXIMUM_SIZE - 1,
     TUN_SIZE + IP_HEADER_MAXIMUM_SIZE + TCP_HEADER_MAXIMUM_SIZE,
     TUN_SIZE + ETHERNET_MTU}

\* RawWriter::new(offset, buf, ..) and RawWriter::from_tuntap_packet(buf, ..):
\* the header at the start of the buffer or behind the tunnel prefix.
Writers ==
    {Tag("writer", RawWriterNew(o, l)) : o \in {0, TUN_SIZE}, l \in WriterLens}

\* The packets a writer is given: the answers to a SYN in both directions.
WriterPackets ==
    {HandshakeResp(WithRcvTcpipHeader(seg)) :
        seg \in UNION {SegmentsOf(q.src, q.dest) : q \in Quads}}

\* The buffers a reader is built over: empty, of the tunnel prefix alone,
\* and the receive buffer of main.
ReaderBufLens == {0, TUN_SIZE, MUT_SIZE}

\* The frames a reader is built over: version 4, 5 and 6, header lengths of
\* 4, 5 and 6 words.
Frames ==
    {[version |-> v, ihl |-> i, doff |-> d, buflen |-> l] :
        v \in {4, 5, 6}, i \in {4, 5, 6}, d \in {4, 5, 6},
        l \in ReaderBufLens}

\* The read lengths: nothing, less than the offset, less than one header,
\* both headers without and with options, and payload behind them.
ReaderLens ==
    {0, TUN_SIZE - 2, TUN_SIZE + IP_HEADER_MAXIMUM_SIZE,
     IP_HEADER_MAXIMUM_SIZE + TCP_HEADER_MAXIMUM_SIZE,
     TUN_SIZE + IP_HEADER_MAXIMUM_SIZE + TCP_HEADER_MAXIMUM_SIZE,
     TUN_SIZE + IP_HEADER_MAXIMUM_SIZE + TCP_HEADER_MAXIMUM_SIZE + 4,
     TUN_SIZE + IP_HEADER_MAXIMUM_SIZE + TCP_HEADER_MAXIMUM_SIZE + 16}

\* The readers over them, at offset 0 and behind the tunnel prefix; no more
\* is read than the buffer holds.
Readers ==
    {Tag("reader", RawReaderFromSlice(x[1], x[2], x[3])) :
        x \in {y \in Frames \X ReaderLens \X {0, TUN_SIZE} :
                   y[2] <= y[1].buflen}}

\* enum TcpState of tcp/vars.rs
TcpStates ==
    {"Closed", "Listen", "SynReceived", "SynSent", "Established", "FinWait1",
     "FinWait2", "CloseWait", "Closing", "LastAck", "TimeWait"}

\* The connections of the crate: create() with set_state(..) of any state.
Conns == {Tag("conn", SetState(Create, st)) : st \in TcpStates}

\* enum TcpState of tcp/mod.rs
PacketStates == {Tag("tcpstate", [state |-> st]) : st \in {"Closed", "Listen"}}

\* The segments handed to the functions that take a received header.
Segments == UNION {SegmentsOf(q.src, q.dest) : q \in Quads}

\* The addresses an active open is asked for.
IpAddrs == {[v6 |-> FALSE, addr |-> "10.0.0.2"], [v6 |-> TRUE, addr |-> "::1"]}

\* A run starts with nothing built, or with a space a connection holds, or
\* with a writer over a buffer, or with a reader over a frame, or with a
\* connection.
SeqInit ==
    /\ overflow_checks \in BOOLEAN
    /\ space \in SendSpaces \cup RecvSpaces \cup {NoSpace} \cup Writers
                   \cup Readers \cup Conns \cup PacketStates
    /\ call = NoCall
    /\ status = [q \in Quads |-> NoConn]
    /\ wire = <<>>
    /\ ev = NoEvent
    /\ panicked = FALSE
    /\ main_ret = "Running"

\* let s = SendSequenceSpace::from_seq_number(iss, wnd)
CallSendFromSeqNumber ==
    \E iss \in U32, wnd \in U16 :
        LET r == SendFromSeqNumber(iss, wnd) IN
        /\ space = NoSpace
        /\ call' = [op |-> "snd_from_seq_number", a |-> iss, b |-> wnd,
                    res |-> [panic |-> r.panic, v |-> FALSE]]
        /\ space' = IF r.panic THEN space ELSE Tag("snd", r.v)
        /\ UNCHANGED <<overflow_checks, status, wire, ev, panicked, main_ret>>

\* s.acceptable(ack_number)
CallSendAcceptable ==
    /\ space.kind = "snd"
    /\ \E ack \in U32 :
        call' = [op |-> "acceptable", a |-> ack, b |-> 0,
                 res |-> Val(SendAcceptable(space, ack))]
    /\ UNCHANGED <<overflow_checks, space, status, wire, ev, panicked, main_ret>>

\* let r = ReceiveSequenceSpace::from_seq_number(seq_number, wnd)
CallRecvFromSeqNumber ==
    \E s \in U32, wnd \in U16 :
        LET r == RecvFromSeqNumber(s, wnd) IN
        /\ space = NoSpace
        /\ call' = [op |-> "rcv_from_seq_number", a |-> s, b |-> wnd,
                    res |-> [panic |-> r.panic, v |-> FALSE]]
        /\ space' = IF r.panic THEN space ELSE Tag("rcv", r.v)
        /\ UNCHANGED <<overflow_checks, status, wire, ev, panicked, main_ret>>

\* r.beginning_fall_in_wnd(seq_number)
CallBeginningFallInWnd ==
    /\ space.kind = "rcv"
    /\ \E s \in U32 :
        call' = [op |-> "beginning_fall_in_wnd", a |-> s, b |-> 0,
                 res |-> BeginningFallInWnd(space, s)]
    /\ UNCHANGED <<overflow_checks, space, status, wire, ev, panicked, main_ret>>

\* r.end_of_fall_in_wnd(seq_number, seq_len)
CallEndOfFallInWnd ==
    /\ space.kind = "rcv"
    /\ \E s \in U32, len \in Lens :
        call' = [op |-> "end_of_fall_in_wnd", a |-> s, b |-> len,
                 res |-> EndOfFallInWnd(space, s, len)]
    /\ UNCHANGED <<overflow_checks, space, status, wire, ev, panicked, main_ret>>

\* writer.write_header()
CallWriteHeader ==
    /\ space.kind = "writer"
    /\ \E packet \in WriterPackets :
        LET r == WriteHeader(space, packet) IN
        /\ call' = [op |-> "write_header", a |-> space.offset, b |-> space.len,
                    res |-> [panic |-> r.panic, v |-> r.err, kind |-> r.kind,
                             required |-> r.required, pre |-> space,
                             packet |-> packet]]
        /\ space' = r.writer
    /\ UNCHANGED <<overflow_checks, status, wire, ev, panicked, main_ret>>

\* The views of the first tcp_ip_header() that returned some, as of call c.
FirstViews(c) ==
    IF c.op \in {"tcp_ip_header", "data_offset", "is_ipv4_packet",
                 "is_ipv6_packet"}
    THEN c.res.first ELSE None

\* reader.tcp_ip_header()
CallTcpIpHeader ==
    /\ space.kind = "reader"
    /\ LET r == TcpIpHeader(space)
           first == IF FirstViews(call).some \/ r.panic \/ r.err
                    THEN FirstViews(call) ELSE Some(r.views)
       IN /\ call' = [op |-> "tcp_ip_header", a |-> space.offset,
                      b |-> space.len,
                      res |-> [panic |-> r.panic, v |-> r.err,
                               views |-> r.views, pre |-> space,
                               first |-> first]]
          /\ space' = r.reader
    /\ UNCHANGED <<overflow_checks, status, wire, ev, panicked, main_ret>>

\* reader.data_offset()
CallDataOffset ==
    /\ space.kind = "reader"
    /\ LET r == DataOffset(space) IN
       /\ call' = [op |-> "data_offset", a |-> space.offset, b |-> space.len,
                   res |-> [panic |-> r.panic, v |-> FALSE, off |-> r.v,
                            pre |-> space, first |-> FirstViews(call)]]
       /\ space' = r.reader
    /\ UNCHANGED <<overflow_checks, status, wire, ev, panicked, main_ret>>

\* reader.is_ipv4_packet()
CallIsIpv4Packet ==
    /\ space.kind = "reader"
    /\ LET r == IsIpv4Packet(space) IN
       call' = [op |-> "is_ipv4_packet", a |-> space.offset, b |-> space.len,
                res |-> [panic |-> r.panic, v |-> r.v,
                         first |-> FirstViews(call)]]
    /\ UNCHANGED <<overflow_checks, space, status, wire, ev, panicked, main_ret>>

\* reader.is_ipv6_packet()
CallIsIpv6Packet ==
    /\ space.kind = "reader"
    /\ LET r == IsIpv6Packet(space) IN
       call' = [op |-> "is_ipv6_packet", a |-> space.offset, b |-> space.len,
                res |-> [panic |-> r.panic, v |-> r.v,
                         first |-> FirstViews(call)]]
    /\ UNCHANGED <<overflow_checks, space, status, wire, ev, panicked, main_ret>>

\* let packet = TcpIpHeader::with_rcv_tcpip_header(tcp, ip)
CallWithRcvTcpipHeader ==
    /\ space = NoSpace
    /\ \E seg \in Segments :
        call' = [op |-> "with_rcv_tcpip_header", a |-> 0, b |-> 0,
                 res |-> [panic |-> FALSE, v |-> FALSE, seg |-> seg,
                          resp |-> WithRcvTcpipHeader(seg)]]
    /\ wire' = <<>>
    /\ UNCHANGED <<overflow_checks, space, status, ev, panicked, main_ret>>

\* state.packet(iface, ip, tcp, data)
CallPacket ==
    /\ space.kind = "tcpstate"
    /\ \E iface \in Ifaces, seg \in Segments :
        LET r == Packet(space.state, iface, seg) IN
        /\ call' = [op |-> "packet", a |-> r.written, b |-> 0,
                    res |-> [panic |-> FALSE, v |-> r.ret = "Err",
                             seg |-> seg, resp |-> r.resp, pre |-> space]]
        /\ space' = [space EXCEPT !.state = r.state]
        /\ wire' = r.frames
    /\ UNCHANGED <<overflow_checks, status, ev, panicked, main_ret>>

\* let conn = TcpConnection::connect(iface, ip, port)
CallConnect ==
    /\ space = NoSpace
    /\ \E iface \in Ifaces, ip \in IpAddrs, buflen \in WriterLens :
        LET r == Connect(iface, ip, 80, buflen) IN
        /\ call' = [op |-> "connect", a |-> 80, b |-> buflen,
                    res |-> [panic |-> r.ret = "Panic", v |-> r.ret = "Err",
                             iface |-> iface, ip |-> ip,
                             send_err |-> r.send_err]]
        /\ space' = IF r.ret = "Ok" THEN Tag("conn", r.conn) ELSE space
        /\ wire' = r.frames
    /\ UNCHANGED <<overflow_checks, status, ev, panicked, main_ret>>

\* conn.close()
CallClose ==
    /\ space.kind = "conn"
    /\ call' = [op |-> "close", a |-> 0, b |-> 0,
                res |-> [panic |-> FALSE, v |-> FALSE, pre |-> space]]
    /\ space' = Close(space)
    /\ wire' = <<>>
    /\ UNCHANGED <<overflow_checks, status, ev, panicked, main_ret>>

SeqNext ==
    \/ CallWithRcvTcpipHeader
    \/ CallPacket
    \/ CallIsIpv4Packet
    \/ CallIsIpv6Packet
    \/ CallConnect
    \/ CallClose
    \/ CallTcpIpHeader
    \/ CallDataOffset
    \/ CallWriteHeader
    \/ CallSendFromSeqNumber
    \/ CallSendAcceptable
    \/ CallRecvFromSeqNumber
    \/ CallBeginningFallInWnd
    \/ CallEndOfFallInWnd

SeqSpec == SeqInit /\ [][SeqNext]_vars

\* ------------------------------------------------- the order mod 2^32
\* seq lies in [nxt, nxt + wnd) of the sequence space, which wraps at 2^32
InWndMod(rcv, seq) == ((seq - rcv.nxt) % U32Mod) < rcv.wnd

\* una < ack <= nxt in the order of the sequence space
AckInModOrder(snd, ack) ==
    LET d == (ack - snd.una) % U32Mod IN
    d > 0 /\ d <= (snd.nxt - snd.una) % U32Mod

\* The segment's sequence range misses the receive window: its start does
\* and, when it has a length, its end does too.
OutsideWnd(rcv, seg) ==
    /\ ~InWndMod(rcv, seg.seq)
    /\ seg.len > 0 => ~InWndMod(rcv, (seg.seq + seg.len - 1) % U32Mod)

\* ------------------------------------------------------------ the claims
\* C1: for every inbound segment with SYN set, accept returns a connection in
\* SynReceived and has handed exactly one frame to send, and that frame has
\* SYN and ACK set.
C1_AcceptSendsSynAck ==
    (ev.op = "accept" /\ ev.seg.syn) =>
        /\ ev.ret = "Some"
        /\ status[ev.quad].state = "SynReceived"
        /\ Len(wire) = 1
        /\ wire[1].tcp.syn /\ wire[1].tcp.ack

\* C2: the frame accept sends for a SYN with sequence number s carries the
\* connection's iss as its sequence number and irs + 1 = s + 1 (mod 2^32) as
\* its acknowledgment number.
C2_SynAckNumbers ==
    (ev.op = "accept" /\ ev.ret = "Some") =>
        /\ Len(wire) = 1
        /\ wire[1].tcp.sequence_number = status[ev.quad].send_seq.iss
        /\ wire[1].tcp.acknowledgment_number = (ev.seg.seq + 1) % U32Mod
        /\ wire[1].tcp.acknowledgment_number
               = (status[ev.quad].recv_seq.irs + 1) % U32Mod

\* C3: for every peer sequence number s, U32Max included, and every window w,
\* ReceiveSequenceSpace::from_seq_number(s, w) does not fail and yields
\* irs = s, nxt = (s + 1) mod 2^32, wnd = w.
C3_RecvFromSeqNumber ==
    call.op = "rcv_from_seq_number" =>
        /\ ~call.res.panic
        /\ space.kind = "rcv"
        /\ space.irs = call.a
        /\ space.nxt = (call.a + 1) % U32Mod
        /\ space.wnd = call.b

\* C4: a segment without SYN for a quad that has no connection makes accept
\* return Ok(None); no connection enters the table and no frame is sent.
C4_NonSynCreatesNothing ==
    (ev.op = "accept" /\ ~ev.seg.syn) =>
        /\ ev.ret = "None"
        /\ \A q \in Quads : status[q] = NoConn \/ q # ev.quad
        /\ wire = <<>>
        /\ ~panicked

C4_Witness ==
    ev.op = "accept" /\ ~ev.seg.syn /\ ev.seg.ack /\ ev.ret = "None"

\* C5: an ACK with acknowledgment number iss + 1, routed to the connection
\* accept left in SynReceived, moves it to Established and sets una to that
\* acknowledgment number.  (The ACK is the well-formed one: it starts at
\* recv.nxt, carries no data, and the window is open.)
C5_AckEstablishes ==
    ( /\ ev.op = "segment"
      /\ ev.pre.state = "SynReceived"
      /\ ev.seg.ack /\ ~ev.seg.syn /\ ~ev.seg.rst /\ ~ev.seg.fin
      /\ ev.seg.ackno = (ev.pre.send_seq.iss + 1) % U32Mod
      /\ ev.seg.seq = ev.pre.recv_seq.nxt /\ ev.seg.len = 0
      /\ ev.pre.recv_seq.wnd > 0 ) =>
        /\ status[ev.quad].state = "Established"
        /\ status[ev.quad].send_seq.una = ev.seg.ackno

\* C6: for every iss, U32Max included, and every wnd,
\* SendSequenceSpace::from_seq_number(iss, wnd) yields una = iss and
\* nxt = (iss + 1) mod 2^32, and on the result acceptable(iss) is false and
\* acceptable((iss + 1) mod 2^32) is true.
C6_SendFromSeqNumber ==
    call.op = "snd_from_seq_number" =>
        /\ ~call.res.panic
        /\ space.kind = "snd"
        /\ space.una = call.a
        /\ space.nxt = (call.a + 1) % U32Mod
        /\ ~SendAcceptable(space, call.a)
        /\ SendAcceptable(space, (call.a + 1) % U32Mod)

\* C7: for every send space and every ack number, acceptable(ack) is true iff
\* una < ack <= nxt in the order mod 2^32.
C7_AcceptableIsModular ==
    call.op = "acceptable" =>
        (call.res.v <=> AckInModOrder(space, call.a))

\* C8: the window checks go by the distance from nxt mod 2^32: with
\* nxt = U32Max and a window of at least 2 a segment with seq = 0, len = 1 is
\* judged to start and to end in the window, and no nxt, wnd, seq, len makes a
\* check fail by overflow.
C8_WindowWraps ==
    /\ call.op \in {"beginning_fall_in_wnd", "end_of_fall_in_wnd"} =>
           ~call.res.panic
    /\ (space.kind = "rcv" /\ space.nxt = U32Max /\ space.wnd >= 2) =>
           /\ (call.op = "beginning_fall_in_wnd" /\ call.a = 0) => call.res.v
           /\ (call.op = "end_of_fall_in_wnd" /\ call.a = 0 /\ call.b = 1) =>
                  call.res.v

\* C9: beginning_fall_in_wnd(seq) is the test "seq lies in [nxt, nxt + wnd)"
\* and end_of_fall_in_wnd(seq, len) the test "seq + len - 1 lies in
\* [nxt, nxt + wnd)", for every seq and len; with len = 0 the end test is not
\* part of acceptability, but it is still computed without failing.
C9_HelpersAreMembership ==
    /\ call.op = "beginning_fall_in_wnd" =>
           ~call.res.panic /\ (call.res.v <=> InWndMod(space, call.a))
    /\ call.op = "end_of_fall_in_wnd" =>
           /\ ~call.res.panic
           /\ call.b > 0 =>
                  (call.res.v <=>
                       InWndMod(space, (call.a + call.b - 1) % U32Mod))

Reverse(seg) == [seg EXCEPT !.src = seg.dst, !.dst = seg.src]

\* C12 as stated: the key of an inbound frame has the frame's destination as
\* its first endpoint and the frame's source as its second, and a frame and
\* its reverse have different keys when the endpoints differ.
C12_KeyIsLocalRemote ==
    ev.op \in {"accept", "segment"} =>
        /\ ev.quad.src = ev.seg.dst
        /\ ev.quad.dest = ev.seg.src
        /\ ev.seg.src # ev.seg.dst => QuadOf(Reverse(ev.seg)) # ev.quad

\* C12 as the code has it: the key of an inbound frame has the frame's source
\* as its first endpoint and the frame's destination as its second, main and
\* Quad::from_tcpip_header agree on it, and a frame and its reverse have
\* different keys when the endpoints differ.
C12_KeyIsSourceDest ==
    ev.op \in {"accept", "segment"} =>
        /\ ev.quad.src = ev.seg.src
        /\ ev.quad.dest = ev.seg.dst
        /\ ev.quad = QuadFromTcpipHeader(ev.seg)
        /\ ev.seg.src # ev.seg.dst =>
               /\ QuadOf(Reverse(ev.seg)) # ev.quad
               /\ QuadFromTcpipHeader(Reverse(ev.seg)) # ev.quad

\* A SYN from A to B has put a connection under its key while the key of the
\* frames from B to A has none.
C12_Witness ==
    /\ ev.op = "accept" /\ ev.ret = "Some"
    /\ ev.seg.src # ev.seg.dst
    /\ status[ev.quad] # NoConn
    /\ status[QuadOf(Reverse(ev.seg))] = NoConn

\* C13: write_header returns the buffer-too-small error, carrying the length
\* required, exactly when the buffer cannot hold offset + IPv4 header length +
\* TCP header length bytes, and then has written nothing; when the buffer can
\* hold them it writes both headers and returns Ok.
C13_WriteHeaderChecksLength ==
    call.op = "write_header" =>
        LET pre == call.res.pre
            packet == call.res.packet
            need == pre.offset + packet.ip_header.header_len
                        + packet.tcp_header.header_len
        IN /\ ~call.res.panic
           /\ (call.res.kind = "SliceTooSmall") <=> (pre.len < need)
           /\ pre.len < need =>
                  /\ call.res.v
                  /\ call.res.required = need
                  /\ space = pre
           /\ pre.len >= need =>
                  /\ ~call.res.v
                  /\ space.ip = packet.ip_header
                  /\ space.tcp = packet.tcp_header

\* The frame of the reader parses: both headers lie within the read length.
Parses(reader) ==
    LET r == TcpIpHeader(reader) IN ~r.panic /\ ~r.err

\* offset + IPv4 header length + TCP header length of the reader's frame
PayloadAt(reader) == reader.offset + reader.ihl * 4 + reader.doff * 4

\* C14: on a frame that parses, tcp_ip_header() returns the views the first
\* call returned, leaves the cached payload offset at offset + IPv4 header
\* length + TCP header length after the first call and as it was after every
\* later one, and data_offset(), before or after, returns that value and
\* leaves that value cached.
C14_TcpIpHeaderIdempotent ==
    /\ (call.op = "tcp_ip_header" /\ Parses(call.res.pre)) =>
           /\ ~call.res.panic /\ ~call.res.v
           /\ call.res.views = call.res.first.v
           /\ call.res.views.ip_len = space.ihl * 4
           /\ call.res.views.tcp_len = space.doff * 4
           /\ space.data_offset = Some(PayloadAt(space))
           /\ call.res.pre.data_offset.some => space = call.res.pre
    /\ (call.op = "data_offset" /\ Parses(call.res.pre)) =>
           /\ ~call.res.panic
           /\ call.res.off = PayloadAt(space)
           /\ space.data_offset = Some(PayloadAt(space))

\* The second tcp_ip_header() on a frame with IPv4 and TCP options behind the
\* tunnel prefix.
C14_Witness ==
    /\ call.op = "tcp_ip_header" /\ Parses(call.res.pre)
    /\ call.res.pre.data_offset.some
    /\ space.offset = TUN_SIZE /\ space.ihl = 6 /\ space.doff = 6
    /\ call.res.views = call.res.first.v
    /\ space.data_offset.v = TUN_SIZE + 24 + 24

\* C15: a frame whose IPv4 or TCP header fails to parse is dropped: the
\* receive loop is still running behind it, ready for the next frame, and the
\* connection table is as it was.
C15_ParseFailureDropsFrame ==
    ev.op = "parse_error" =>
        /\ main_ret = "Running"
        /\ ~panicked
        /\ status = ev.table

\* C16: when accept, answering a SYN, fails to serialize the SYN+ACK or the
\* data layer fails to send it, accept returns the failure to its caller and
\* no connection in SynReceived.
C16_AcceptPropagatesFailure ==
    ( /\ ev.op = "accept" /\ ev.seg.syn /\ ev.ret # "Panic"
      /\ ev.hs_err \/ ev.send_err ) =>
        /\ ev.ret = "Err"
        /\ status[ev.quad] = NoConn

C18_CloseSendsFin ==
    call.op = "close" =>
        /\ call.res.pre.state = "Established" =>
               /\ space.state = "FinWait1"
               /\ Len(wire) = 1 /\ wire[1].tcp.fin
        /\ call.res.pre.state = "CloseWait" =>
               /\ space.state = "LastAck"
               /\ Len(wire) = 1 /\ wire[1].tcp.fin
        /\ call.res.pre.state = "Established" => space.state # "Closed"

\* C19: an inbound segment with RST set, whatever the state of its quad (and,
\* for a quad with a connection, with its sequence range in the receive
\* window), leaves no connection for the quad in the table, closed and
\* removed, and no frame is sent in reply.
C19_RstClosesSilently ==
    ( /\ ev.op \in {"accept", "segment"} /\ ev.seg.rst
      /\ ev.op = "segment" => ~OutsideWnd(ev.pre.recv_seq, ev.seg) ) =>
        /\ wire = <<>>
        /\ status[ev.quad] = NoConn

\* C20: the header accept hands to the writer for a SYN carries, in its
\* checksum field, the TCP checksum computed over that final header (flags,
\* sequence and acknowledgment numbers, window), and so does the frame handed
\* to the data layer.
C20_ChecksumOverFinalHeader ==
    (ev.op = "accept" /\ Len(wire) > 0) =>
        /\ ev.packet.tcp_header.checksum = CheckSum(ev.packet, 0, 0)
        /\ \A i \in 1 .. Len(wire) :
               wire[i].tcp.checksum = CheckSum(ev.packet, 0, 0)

\* C21: is_ipv4_packet() and is_ipv6_packet() never fail, for every buffer,
\* read length and offset, a read length not greater than the offset included,
\* and answer by the top nibble of the byte at the offset alone: 4 is IPv4,
\* 6 is IPv6, anything else is neither.
C21_ClassifyNeverFails ==
    /\ call.op = "is_ipv4_packet" =>
           ~call.res.panic /\ (call.res.v <=> space.version = 4)
    /\ call.op = "is_ipv6_packet" =>
           ~call.res.panic /\ (call.res.v <=> space.version = 6)

\* C22: the connection accept returns for a SYN, its SYN+ACK carrying the
\* sequence number iss, has iss recorded in its send space, una = iss and
\* nxt = iss + 1 mod 2^32, so that una <= nxt and acceptable(iss + 1) holds.
C22_SendSpaceAfterHandshake ==
    (ev.op = "accept" /\ ev.ret = "Some") =>
        LET snd == status[ev.quad].send_seq IN
        /\ snd.iss = ev.packet.tcp_header.sequence_number
        /\ snd.una = snd.iss
        /\ snd.nxt = (snd.iss + 1) % U32Mod
        /\ snd.una <= snd.nxt
        /\ SendAcceptable(snd, (snd.iss + 1) % U32Mod)

\* C23: every frame whose headers main has parsed holds both headers below its
\* read length: the TCP header is parsed from the bytes behind the IPv4 header
\* up to the read length, a frame with fewer bytes fails to parse, the payload
\* starts at or below the read length, and no byte of an earlier frame is
\* read.
C23_ParseWithinReadLength ==
    ev.op \in {"accept", "segment", "stale_parse"} =>
        ev.frame.n >= TUN_SIZE + ev.frame.ihl * 4 + ev.frame.doff * 4

\* A response header was built: by with_rcv_tcpip_header, or by
\* TcpState::packet for a SYN in Listen.
ResponseBuilt ==
    \/ call.op = "with_rcv_tcpip_header"
    \/ call.op = "packet" /\ Len(wire) > 0

\* C24: every response header built from a received segment has the
\* segment's destination address and port as its IP source and TCP source
\* port, and the segment's source address and port as its IP destination and
\* TCP destination port.
C24_ResponseSwapsEndpoints ==
    ResponseBuilt =>
        /\ call.res.resp.ip_header.source = call.res.seg.dst.ip
        /\ call.res.resp.tcp_header.source_port = call.res.seg.dst.port
        /\ call.res.resp.ip_header.destination = call.res.seg.src.ip
        /\ call.res.resp.tcp_header.destination_port = call.res.seg.src.port

\* The response header to a segment from 10.0.0.1:80 to 10.0.0.2:5000 goes
\* from 10.0.0.2:5000 to 10.0.0.1:80.
C24_Witness ==
    /\ call.op = "with_rcv_tcpip_header"
    /\ call.res.seg.src = AddrNew("10.0.0.1", 80)
    /\ call.res.seg.dst = AddrNew("10.0.0.2", 5000)
    /\ call.res.resp.ip_header.source = "10.0.0.2"
    /\ call.res.resp.tcp_header.source_port = 5000
    /\ call.res.resp.ip_header.destination = "10.0.0.1"
    /\ call.res.resp.tcp_header.destination_port = 80

\* C25: TcpState::packet sends nothing in Closed, nothing in Listen for a
\* segment without SYN, and for a SYN in Listen one frame whose length is the
\* number of bytes written into the response buffer (the IPv4 header and the
\* TCP header), not the number of bytes left of the buffer behind them.
C25_PacketFrameLength ==
    call.op = "packet" =>
        /\ call.res.pre.state = "Closed" => wire = <<>>
        /\ (call.res.pre.state = "Listen" /\ ~call.res.seg.syn) => wire = <<>>
        /\ (call.res.pre.state = "Listen" /\ call.res.seg.syn) =>
               /\ Len(wire) = 1
               /\ wire[1].len = call.a
               /\ wire[1].len = wire[1].ip.header_len + wire[1].tcp.header_len

====
